---- MODULE Spec2Model ----
(***************************************************************************)
(* Process supervision, cancellation and dispatch of the batch transcoder. *)
(*                                                                         *)
(* Two specifications share the ProcessManager operators:                  *)
(*   SpecApi  the ProcessManager singleton called by arbitrary threads in  *)
(*            arbitrary order (register, unregister, request_cancel,       *)
(*            is_cancelled, kill_all, clear);                              *)
(*   Spec     an image run (handle_images) with its pipeline checks,       *)
(*            command building, the rayon worker pool, and the             *)
(*            cancel_process command running concurrently.                 *)
(***************************************************************************)
EXTENDS Integers, Sequences, FiniteSets, TLC

(* ------------------------------ bounds -------------------------------- *)
\* ids handed out before the model stops registering
MaxIds == 3
\* rayon worker threads of the dispatch pool
NumWorkers == 2
\* key groups (units) of one run's input
MaxUnits == 1
\* runs started one after the other
MaxRuns == 1
\* images of a list whose keys and file sizes are enumerated freely
MaxImages == 4
\* logical CPUs of the host
MaxCpus == 2
\* processes the pool's workers register, over all runs
MaxRegistered == 2
\* value of the progress counter at which the tracker's callers stop incrementing
MaxCurrent == 13
\* ticks of the clock
MaxTime == 2
\* threads that call into the registry and the tracker
MaxThreads == 2
\* calls these threads begin
MaxCalls == 3
\* items of a batch handed to the command builder by its size alone
MaxBatch == 23
\* files of a batch handed to the command builder with their paths
MaxFiles == 2

(* ------------------------- program constants -------------------------- *)
CHUNK_SIZE == 10

Workers == 1..NumWorkers
\* OS process ids the encoder children can get
Pids == 1..NumWorkers
Ids == 0..(MaxIds - 1)
\* sizes of a key group: one below and one above CHUNK_SIZE
UnitSizes == {3, 12}

None == "None"

(* ------------------------ ProcessManager (pure) ----------------------- *)
\* The singleton's fields: process_ids (logical id -> OS pid), next_id, cancel_flag.
EmptyMap == [x \in {} |-> 0]

ProcessManager_new ==
    [process_ids |-> EmptyMap, next_id |-> 0, cancel_flag |-> FALSE]

\* a map without one key
MapRemove(f, k) == [x \in (DOMAIN f) \ {k} |-> f[x]]

\* a map with one more binding (HashMap::insert)
MapInsert(f, k, v) == [x \in (DOMAIN f) \cup {k} |-> IF x = k THEN v ELSE f[x]]

\* Every operation returns the manager after the call, the value handed back to
\* the caller, and the set of pids a forced termination was issued against.
register_process_by_pid(m, pid) ==
    [m |-> [m EXCEPT !.process_ids = MapInsert(m.process_ids, m.next_id, pid),
                     !.next_id = m.next_id + 1],
     ret |-> m.next_id,
     signalled |-> {}]

unregister_process_errs(m, id) ==
    [m |-> [m EXCEPT !.process_ids = MapRemove(m.process_ids, id)],
     ret |-> IF id \in DOMAIN m.process_ids THEN "return" ELSE "panic",
     signalled |-> {}]

unregister_process(m, id) ==
    [m |-> [m EXCEPT !.process_ids = MapRemove(m.process_ids, id)],
     ret |-> "return",
     signalled |-> {}]

request_cancel_kills(m) ==
    [m |-> [m EXCEPT !.cancel_flag = TRUE],
     ret |-> "return",
     signalled |-> {m.process_ids[i] : i \in DOMAIN m.process_ids}]

request_cancel(m) ==
    [m |-> [m EXCEPT !.cancel_flag = TRUE],
     ret |-> "return",
     signalled |-> {}]

is_cancelled(m) ==
    [m |-> m, ret |-> m.cancel_flag, signalled |-> {}]

\* failed: the registered ids whose kill_process_by_pid returns Err
kill_all_processes_stops_at_failure(m, failed) ==
    [m |-> [m EXCEPT !.cancel_flag = TRUE,
                     !.process_ids = IF failed = {}
                                     THEN EmptyMap
                                     ELSE m.process_ids],
     ret |-> "Ok",
     signalled |-> {m.process_ids[i] : i \in DOMAIN m.process_ids}]

kill_all_processes_resets_flag(m, failed) ==
    [m |-> [m EXCEPT !.cancel_flag = FALSE, !.process_ids = EmptyMap],
     ret |-> "Ok",
     signalled |-> {m.process_ids[i] : i \in DOMAIN m.process_ids}]

\* The sweep holds the registry lock from the first to the last line.  The errors
\* collected in the loop are logged; the value returned is Ok(()) on every path.
kill_all_processes(m, failed) ==
    IF DOMAIN m.process_ids = {}
    THEN [m |-> [m EXCEPT !.cancel_flag = TRUE], ret |-> "Ok", signalled |-> {}]
    ELSE [m |-> [m EXCEPT !.cancel_flag = TRUE, !.process_ids = EmptyMap],
          ret |-> "Ok",
          signalled |-> {m.process_ids[i] : i \in DOMAIN m.process_ids}]

clear_restarts_ids(m) ==
    [m |-> [m EXCEPT !.process_ids = EmptyMap, !.cancel_flag = FALSE, !.next_id = 0],
     ret |-> "return",
     signalled |-> {}]

clear_keeps_flag(m) ==
    [m |-> [m EXCEPT !.process_ids = EmptyMap],
     ret |-> "return",
     signalled |-> {}]

clear(m) ==
    [m |-> [m EXCEPT !.process_ids = EmptyMap, !.cancel_flag = FALSE],
     ret |-> "return",
     signalled |-> {}]

\* ffmpeg_logger, lines 21-26: the result of process_ffmpeg_output is kept in a
\* local and the process is unregistered whatever it is
ffmpeg_logger_unregisters_on_success(m, id, ok) ==
    IF ok THEN unregister_process(m, id).m ELSE m

ffmpeg_logger_unregister(m, id, ok) ==
    unregister_process(m, id).m

(* ------------------------- ProgressManager (pure) --------------------- *)
\* GLOBAL_PROGRESS is None (some = FALSE) or a tracker; time-derived fields are
\* left out.
NoTracker ==
    [some |-> FALSE, current |-> 0, total |-> 0, status |-> "", finished |-> FALSE]

ProgressTracker_new(status) ==
    [some |-> TRUE, current |-> 0, total |-> 0, status |-> status, finished |-> FALSE]

set_status(p, status) ==
    IF ~p.some THEN p ELSE [p EXCEPT !.status = status]

set_total(p, total) ==
    IF ~p.some THEN p ELSE [p EXCEPT !.total = total]

increment_progress_by_one(p, value) ==
    IF ~p.some THEN p ELSE [p EXCEPT !.current = p.current + 1]

increment_progress_overwrites(p, value) ==
    IF ~p.some THEN p ELSE [p EXCEPT !.current = value]

increment_progress_skips_first(p, value) ==
    IF ~p.some \/ p.current = 0 THEN p ELSE [p EXCEPT !.current = p.current + value]

\* ProgressManager::increment_progress and ProgressTracker::increment, under the
\* locks of GLOBAL_PROGRESS and of the tracker's info
increment_progress(p, value) ==
    IF ~p.some THEN p ELSE [p EXCEPT !.current = p.current + value]

finish_progress(p) ==
    IF ~p.some THEN p ELSE [p EXCEPT !.finished = TRUE]

check_cancelled_stops_processes(m, p) ==
    IF is_cancelled(m).ret
    THEN [err |-> TRUE, progress |-> set_status(p, "Operation cancelled"),
          m |-> kill_all_processes(m, {}).m,
          signalled |-> kill_all_processes(m, {}).signalled]
    ELSE [err |-> FALSE, progress |-> p, m |-> is_cancelled(m).m,
          signalled |-> is_cancelled(m).signalled]

(* the calculated fields of ProgressInfo.  f64 values are kept as fractions in
   lowest terms, Durations in ticks of the clock *)
RECURSIVE GCD(_, _)
GCD(a, b) == IF b = 0 THEN a ELSE GCD(b, a % b)

Frac(n, d) ==
    IF n = 0 THEN [num |-> 0, den |-> 1]
    ELSE [num |-> n \div GCD(n, d), den |-> d \div GCD(n, d)]

NoEta == [some |-> FALSE, num |-> 0, den |-> 1]

\* ProgressInfo::new, and the clock before the tracker exists
NoSnap ==
    [now |-> 0, start_time |-> 0, percentage |-> Frac(0, 1), elapsed_time |-> 0,
     items_per_second |-> Frac(0, 1), estimated_remaining |-> NoEta]

\* ProgressTracker::new: start_time is Instant::now()
ProgressTracker_start(s) ==
    [NoSnap EXCEPT !.now = s.now, !.start_time = s.now]

update_calculations_keeps_eta(p, s) ==
    LET elapsed == s.now - s.start_time
        rate == IF elapsed > 0 THEN Frac(p.current, elapsed) ELSE s.items_per_second
    IN  [s EXCEPT
            !.elapsed_time = elapsed,
            !.percentage = IF p.total > 0 THEN Frac(p.current * 100, p.total)
                           ELSE Frac(0, 1),
            !.items_per_second = rate,
            !.estimated_remaining =
                IF p.current > 0 /\ p.current < p.total /\ rate.num > 0
                THEN [some |-> TRUE,
                      num |-> Frac((p.total - p.current) * rate.den, rate.num).num,
                      den |-> Frac((p.total - p.current) * rate.den, rate.num).den]
                ELSE s.estimated_remaining]

\* ProgressTracker::update_calculations, for the counters p already written
update_calculations(p, s) ==
    LET elapsed == s.now - s.start_time
        rate == IF elapsed > 0 THEN Frac(p.current, elapsed) ELSE s.items_per_second
    IN  [s EXCEPT
            !.elapsed_time = elapsed,
            !.percentage = IF p.total > 0 THEN Frac(p.current * 100, p.total)
                           ELSE Frac(0, 1),
            !.items_per_second = rate,
            !.estimated_remaining =
                IF p.current > 0 /\ p.current < p.total /\ rate.num > 0
                THEN [some |-> TRUE,
                      num |-> Frac((p.total - p.current) * rate.den, rate.num).num,
                      den |-> Frac((p.total - p.current) * rate.den, rate.num).den]
                ELSE NoEta]

\* ProgressManager::clear_progress
clear_progress(p) == NoTracker

\* ProgressManager::is_complete and ProgressTracker::is_complete
is_complete(p) == p.some /\ p.current >= p.total /\ p.total > 0

NoInfo ==
    [some |-> FALSE, current |-> 0, total |-> 0, percentage |-> Frac(0, 1),
     elapsed_time |-> 0, estimated_remaining |-> NoEta,
     items_per_second |-> Frac(0, 1), status |-> ""]

\* ProgressManager::get_progress: None without a tracker, else a clone of its info
get_progress(p, s) ==
    IF ~p.some THEN NoInfo
    ELSE [some |-> TRUE, current |-> p.current, total |-> p.total,
          percentage |-> s.percentage, elapsed_time |-> s.elapsed_time,
          estimated_remaining |-> s.estimated_remaining,
          items_per_second |-> s.items_per_second, status |-> p.status]

\* check_cancelled: Err(CancellationError) iff the flag is set, and then the
\* status text is replaced.  The only ProcessManager call is is_cancelled().
check_cancelled(m, p) ==
    IF is_cancelled(m).ret
    THEN [err |-> TRUE, progress |-> set_status(p, "Operation cancelled"),
          m |-> is_cancelled(m).m, signalled |-> is_cancelled(m).signalled]
    ELSE [err |-> FALSE, progress |-> p, m |-> is_cancelled(m).m,
          signalled |-> is_cancelled(m).signalled]

(* --------------------------- command building ------------------------- *)
DivCeil_floor(a, b) == a \div b

\* usize::div_ceil
DivCeil(a, b) == (a + b - 1) \div b

\* slice.chunks(k): the lengths of the slices of n elements
RECURSIVE Chunks(_, _)
Chunks(n, k) ==
    IF n = 0 THEN <<>>
    ELSE IF n <= k THEN <<n>>
    ELSE <<k>> \o Chunks(n - k, k)

\* create_image_ffmpeg_command_list: the batch sizes of the commands built from
\* a unit of n items
ChunkSizes(n) ==
    IF n = 0 THEN <<>>
    ELSE IF n <= CHUNK_SIZE THEN <<n>>
    ELSE Chunks(n, DivCeil(n, DivCeil(n, CHUNK_SIZE)))

\* insertion of x behind every element that is at least as large
RECURSIVE InsertDesc(_, _)
InsertDesc(s, x) ==
    IF s = <<>> THEN <<x>>
    ELSE IF Head(s) >= x THEN <<Head(s)>> \o InsertDesc(Tail(s), x)
    ELSE <<x>> \o s

\* ffmpeg_command_list.sort_by(|a, b| b.batch_size.cmp(&a.batch_size))
RECURSIVE SortDesc(_)
SortDesc(s) ==
    IF s = <<>> THEN <<>>
    ELSE InsertDesc(SortDesc(SubSeq(s, 1, Len(s) - 1)), s[Len(s)])

RECURSIVE SumSeq(_)
SumSeq(s) == IF s = <<>> THEN 0 ELSE Head(s) + SumSeq(Tail(s))

\* a key group: n records; bad is the chunk holding a path that is not UTF-8
\* (0 when every path is representable)
Units == UNION {{[n |-> sz, bad |-> b] : b \in 0..Len(ChunkSizes(sz))} : sz \in UnitSizes}

Inputs == UNION {[1..k -> Units] : k \in 0..MaxUnits}

TotalItems_counts_units(in) == Len(in)

\* image_list.len(), the argument of set_total
TotalItems(in) == SumSeq([i \in 1..Len(in) |-> in[i].n])

\* the images of a batch: directory relative to the input directory, file stem
\* and extension
FileDirs == {"", "sub"}
FileStems == {"a", "b"}
FileExts == {"png", "jpg"}
ImageFiles == [dir : FileDirs, stem : FileStems, ext : FileExts]

\* lists of distinct paths, as a directory walk returns them
FileLists ==
    UNION {{l \in [1..k -> ImageFiles] : \A i, j \in 1..k : l[i] = l[j] => i = j} :
           k \in 0..MaxFiles}

\* image_settings.format
TargetTypes == {"png", "webp"}

\* process_images_from_image_list, lines 214-230
final_output_directory(f, keep) ==
    IF keep THEN <<"output_directory", f.dir>> ELSE <<"output_directory", "">>

\* create_image_ffmpeg_command, lines 445-452
output_file(f, keep, target) ==
    [dir |-> final_output_directory(f, keep), name |-> <<f.stem, target>>]

NoBuild ==
    [n |-> 0, files |-> <<>>, keep |-> FALSE, target |-> "png", called |-> FALSE,
     chunks |-> <<>>, outputs |-> <<>>]

\* a batch is given either by its size alone or by the paths of its images
BuildInputs ==
    {[NoBuild EXCEPT !.n = k] : k \in 0..MaxBatch}
    \cup {[NoBuild EXCEPT !.n = Len(l), !.files = l, !.keep = kp, !.target = t] :
             l \in FileLists, kp \in BOOLEAN, t \in TargetTypes}

(* ------------------------------- locks -------------------------------- *)
\* PROCESS_MANAGER, GLOBAL_PROGRESS and the tracker's info mutex
Locks == {"registry", "progress", "info"}
Threads == 1..MaxThreads

Acq(l) == [k |-> "acquire", l |-> l, a |-> "lock"]
Rel(l) == [k |-> "release", l |-> l, a |-> "drop guard"]
Work(a) == [k |-> "work", l |-> "none", a |-> a]

\* one call on the registry: lock().unwrap(), the body, the guard dropped at return
RegistryCall(a) == <<Acq("registry"), Work(a), Rel("registry")>>

\* one call on the tracker: GLOBAL_PROGRESS is locked, then the tracker's info
ProgressCallSteps(a) ==
    <<Acq("progress"), Acq("info"), Work(a), Rel("info"), Rel("progress")>>

KillAllProgram_flag_last ==
    <<Acq("registry"),
      [k |-> "kill", l |-> "none", a |-> "kill_process_by_pid"],
      Work("clear_ids"),
      Work("set_flag"),
      Rel("registry")>>

\* kill_all_processes: the guard taken at line 79 lives to the end of the function
KillAllProgram ==
    <<Acq("registry"),
      Work("set_flag"),
      [k |-> "kill", l |-> "none", a |-> "kill_process_by_pid"],
      Work("clear_ids"),
      Rel("registry")>>

CheckCancelledProgram_holds_registry ==
    <<Acq("registry"), Work("load_flag")>> \o ProgressCallSteps("set_status")
        \o <<Rel("registry")>>

\* check_cancelled: is_cancelled() returns before set_status is called
CheckCancelledProgram ==
    RegistryCall("load_flag") \o ProgressCallSteps("set_status")

\* spawn_ffmpeg_process after the spawn: ffmpeg_logger registers, reads the
\* child's events and waits for it, unregisters; then the increment
EncodeProgram ==
    RegistryCall("register")
        \o <<[k |-> "io", l |-> "none", a |-> "process_ffmpeg_output"]>>
        \o RegistryCall("unregister")
        \o ProgressCallSteps("increment")

LockOps ==
    {"register", "unregister", "request_cancel", "is_cancelled", "kill_all", "clear",
     "check_cancelled", "start_progress", "get_progress", "encode"}

Program(op) ==
    CASE op = "register" -> RegistryCall("register")
      [] op = "unregister" -> RegistryCall("unregister")
      [] op = "request_cancel" -> RegistryCall("set_flag")
      [] op = "is_cancelled" -> RegistryCall("load_flag")
      [] op = "kill_all" -> KillAllProgram
      [] op = "clear" -> RegistryCall("clear")
      [] op = "check_cancelled" -> CheckCancelledProgram
      [] op = "start_progress" -> <<Acq("progress"), Work("start"), Rel("progress")>>
      [] op = "get_progress" -> ProgressCallSteps("get_info")
      [] op = "encode" -> EncodeProgram
      [] OTHER -> <<>>

\* a thread outside every call
IdleThread == [op |-> "none", pc |-> 0, arg |-> 0, flag |-> FALSE, ok |-> TRUE, done |-> {}]

NoLock ==
    [holder |-> [l \in Locks |-> 0],
     th |-> [t \in Threads |-> IdleThread],
     calls |-> 0,
     windows |-> FALSE]

(* ----------------------------- partitioner ---------------------------- *)
\* BatchKey: resolution and file type
KeyA == [resolution |-> <<1920, 1080>>, file_type |-> "png"]
KeyB == [resolution |-> <<1280, 720>>, file_type |-> "jpeg"]
KeyC == [resolution |-> <<1920, 1080>>, file_type |-> "jpeg"]
BatchKeys == {KeyA, KeyB, KeyC}

Max(a, b) == IF a >= b THEN a ELSE b

\* image_list as sort_list_by_file_size leaves it (largest file first): the
\* first b images have file size 2, the others 1; id is the record's identity
SmallImageLists ==
    UNION {{[i \in 1..n |-> [id |-> i, key |-> ks[i],
                             file_size |-> IF i <= b THEN 2 ELSE 1]] :
               ks \in [1..n -> BatchKeys], b \in 0..n} : n \in 0..MaxImages}

\* group sizes around the thresholds of larger lists
BlockCounts == {0, 5, 17}

\* a list of a images of KeyA, then b of KeyB, then c of KeyC, file sizes
\* strictly decreasing
BlockList(a, b, c) ==
    [i \in 1..(a + b + c) |->
        [id |-> i,
         key |-> IF i <= a THEN KeyA ELSE IF i <= a + b THEN KeyB ELSE KeyC,
         file_size |-> a + b + c + 1 - i]]

LargeImageLists ==
    {BlockList(a, b, c) : a \in BlockCounts, b \in BlockCounts, c \in BlockCounts}

\* 100 records, 60 of 1920x1080 png and 40 of 1280x720 jpeg, interleaved, on a
\* host with 4 logical CPUs
ScenarioA ==
    [image_list |-> [i \in 1..100 |->
                        [id |-> i,
                         key |-> IF i % 5 < 3 THEN KeyA ELSE KeyB,
                         file_size |-> 101 - i]],
     cpus |-> 4]

GroupByKey_by_resolution(image_list) ==
    LET first == {i \in 1..Len(image_list) :
                     \A j \in 1..(i - 1) :
                        image_list[j].key.resolution # image_list[i].key.resolution}
    IN  [k \in {image_list[i].key : i \in first} |->
            SelectSeq(image_list, LAMBDA im : im.key.resolution = k.resolution)]

\* process_images_from_image_list: batches.entry(key).or_default().push(image)
GroupByKey(image_list) ==
    [k \in {image_list[i].key : i \in 1..Len(image_list)} |->
        SelectSeq(image_list, LAMBDA im : im.key = k)]

\* the orders in which a HashMap with these keys can be iterated
IterationOrders(batches) ==
    {o \in [1..Cardinality(DOMAIN batches) -> DOMAIN batches] :
        \A i, j \in DOMAIN o : i # j => o[i] # o[j]}

\* images.sort_by(|a, b| b.file_size.cmp(&a.file_size)), a stable sort: an
\* image comes behind the larger ones and behind the equal ones that preceded it
SortImagesDesc(s) ==
    LET before(i) == {j \in 1..Len(s) :
                         \/ s[j].file_size > s[i].file_size
                         \/ s[j].file_size = s[i].file_size /\ j < i}
    IN  [p \in 1..Len(s) |-> s[CHOOSE i \in 1..Len(s) : Cardinality(before(i)) = p - 1]]

\* images.len().div_ceil(target_images_per_unit)
NumSplits_floor(len, target) == Max(1, len \div target)

\* images.len().div_ceil(target_images_per_unit)
NumSplits(len, target) == DivCeil(len, target)

RoundRobin_truncates(images, num_splits) ==
    [j \in 1..num_splits |->
        [m \in 1..(Len(images) \div num_splits) |-> images[(m - 1) * num_splits + j]]]

RoundRobin_contiguous(images, num_splits) ==
    [j \in 1..num_splits |->
        SubSeq(images, (j - 1) * DivCeil(Len(images), num_splits) + 1,
               IF j * DivCeil(Len(images), num_splits) < Len(images)
               THEN j * DivCeil(Len(images), num_splits) ELSE Len(images))]

\* splits[index % num_splits].push(image): split j (from 1) holds the images
\* at the 0-based indexes j - 1, j - 1 + num_splits, ...
RoundRobin(images, num_splits) ==
    [j \in 1..num_splits |->
        IF j > Len(images) THEN <<>>
        ELSE [m \in 1..((Len(images) - j) \div num_splits + 1) |->
                 images[(m - 1) * num_splits + j]]]

\* one split of a large batch is added to work_units; a split below
\* min_batch_size is appended to the last unit of the same key, if there is one
AddSplit(work_units, key, split, min_batch_size) ==
    IF split # <<>> /\ Len(split) >= min_batch_size
    THEN Append(work_units, [key |-> key, images |-> split])
    ELSE IF split # <<>>
    THEN LET same == {i \in 1..Len(work_units) : work_units[i].key = key}
         IN  IF same # {}
             THEN LET last == CHOOSE i \in same : \A j \in same : j <= i
                  IN  [work_units EXCEPT ![last].images = @ \o split]
             ELSE Append(work_units, [key |-> key, images |-> split])
    ELSE work_units

RECURSIVE AddSplits(_, _, _, _, _)
AddSplits(work_units, key, splits, j, min_batch_size) ==
    IF j > Len(splits) THEN work_units
    ELSE AddSplits(AddSplit(work_units, key, splits[j], min_batch_size),
                   key, splits, j + 1, min_batch_size)

SplitBatch_fills_units(work_units, key, images, target, min_batch_size) ==
    IF Len(images) <= target
    THEN Append(work_units, [key |-> key, images |-> images])
    ELSE work_units \o
            [j \in 1..DivCeil(Len(images), target) |->
                [key |-> key,
                 images |-> SubSeq(SortImagesDesc(images), (j - 1) * target + 1,
                                   IF j * target < Len(images) THEN j * target
                                   ELSE Len(images))]]

SplitBatch_merges_small(work_units, key, images, target, min_batch_size) ==
    IF Len(images) <= target
    THEN IF work_units = <<>>
         THEN Append(work_units, [key |-> key, images |-> images])
         ELSE [work_units EXCEPT ![Len(work_units)].images = @ \o images]
    ELSE AddSplits(work_units, key,
                   RoundRobin(SortImagesDesc(images), NumSplits(Len(images), target)),
                   1, min_batch_size)

\* the body of `for (batch_key, mut images) in batches`
SplitBatch(work_units, key, images, target, min_batch_size) ==
    IF Len(images) <= target
    THEN Append(work_units, [key |-> key, images |-> images])
    ELSE AddSplits(work_units, key,
                   RoundRobin(SortImagesDesc(images), NumSplits(Len(images), target)),
                   1, min_batch_size)

RECURSIVE SplitLoop(_, _, _, _, _, _)
SplitLoop(batches, order, i, work_units, target, min_batch_size) ==
    IF i > Len(order) THEN work_units
    ELSE SplitLoop(batches, order, i + 1,
                   SplitBatch(work_units, order[i], batches[order[i]], target,
                              min_batch_size),
                   target, min_batch_size)

RECURSIVE InsertUnitDesc(_, _)
InsertUnitDesc(s, x) ==
    IF s = <<>> THEN <<x>>
    ELSE IF Len(Head(s).images) >= Len(x.images)
         THEN <<Head(s)>> \o InsertUnitDesc(Tail(s), x)
         ELSE <<x>> \o s

SortUnitsDesc_skipped(s) == s

\* work_units.sort_by(|a, b| b.1.len().cmp(&a.1.len())), a stable sort
RECURSIVE SortUnitsDesc(_)
SortUnitsDesc(s) ==
    IF s = <<>> THEN <<>>
    ELSE InsertUnitDesc(SortUnitsDesc(SubSeq(s, 1, Len(s) - 1)), s[Len(s)])

RECURSIVE SumLens(_, _)
SumLens(batches, ks) ==
    IF ks = {} THEN 0
    ELSE LET k == CHOOSE x \in ks : TRUE
         IN  Len(batches[k]) + SumLens(batches, ks \ {k})

\* batches.values().map(|v| v.len()).sum()
TotalImages(batches) == SumLens(batches, DOMAIN batches)

TargetImagesPerUnit_per_cpu(total_images, target_threads) ==
    DivCeil(total_images, target_threads \div 2)

\* total_images.div_ceil(target_threads)
TargetImagesPerUnit(total_images, target_threads) == DivCeil(total_images, target_threads)

\* std::cmp::max(1, target_images_per_unit / 4)
MinBatchSize(target) == Max(1, target \div 4)

\* split_batches_optimally.  order is the order in which the HashMap hands out
\* its entries.  usize::div_ceil panics when the divisor is zero.
split_batches_optimally(batches, order, target_threads) ==
    IF target_threads = 0
    THEN [panic |-> TRUE, units |-> <<>>]
    ELSE LET target == TargetImagesPerUnit(TotalImages(batches), target_threads)
         IN  [panic |-> FALSE,
              units |-> SortUnitsDesc(SplitLoop(batches, order, 1, <<>>, target,
                                                MinBatchSize(target)))]

\* no call yet
NoOutput == [panic |-> FALSE, units |-> <<>>]

NoPart == [image_list |-> <<>>, cpus |-> 0, order |-> <<>>, called |-> FALSE, out |-> NoOutput]

(* ------------------------------- errors ------------------------------- *)
\* Box<dyn Error> values a run can return.  type is the concrete error type,
\* msg its Display text; cause records whether the error arose from the user's
\* cancellation (a check that saw the flag, or a child stopped by the sweep).
CancellationError ==
    [type |-> "CancellationError", msg |-> "Operation cancelled by user", cause |-> "cancel"]

\* map_err at the call of create_image_ffmpeg_command_list: any error of the
\* builder becomes a plain string error with a prefix.
BatchError(e) ==
    [type |-> "String", msg |-> "Failed to process image batch: " \o e.msg, cause |-> e.cause]

PathError ==
    [type |-> "String", msg |-> "Invalid image file path", cause |-> "other"]

\* std::fs::create_dir_all returned Err
DirError ==
    [type |-> "io::Error", msg |-> "create_dir_all failed", cause |-> "other"]

SpawnError ==
    [type |-> "io::Error", msg |-> "spawn failed", cause |-> "other"]

\* process_ffmpeg_output returned Err before the child was waited for
EventsError ==
    [type |-> "Box<dyn Error>", msg |-> "ffmpeg events unavailable", cause |-> "other"]

\* process_ffmpeg_output returned Err: the child exited nonzero or was ended by a
\* signal (or its event stream or exit status could not be read)
ExitError(cause) ==
    [type |-> "String", msg |-> "FFmpeg process failed with exit code", cause |-> cause]

Ok == [type |-> "Ok", msg |-> "", cause |-> "none"]

\* no value yet
NoResult == [type |-> "None", msg |-> "", cause |-> "none"]

(* -------------------------------- state ------------------------------- *)
VARIABLES
    manager,     \* PROCESS_MANAGER
    progress,    \* GLOBAL_PROGRESS
    pc,          \* position of the thread running handle_images
    step,        \* index of the next pipeline check
    input,       \* the run's key groups
    bi,          \* index of the unit being built
    ci,          \* index of the chunk being built
    cmds,        \* ffmpeg_command_list, then the queue the pool drains
    workers,     \* the pool's threads
    errs,        \* errors returned by worker closures
    result,      \* what handle_images returned
    runs,        \* runs started
    cancelPc,    \* position of the thread running cancel_process
    cancelled_by, \* which call set the cancel flag since the last clear():
                 \* "none", "kill_all", or "request_cancel" once that was called
    call,        \* last ProcessManager call of SpecApi: operation, argument,
                 \* returned value, pids signalled, the manager before it, and
                 \* the number of ids issued before the last clear()
    issued,      \* the ids returned by register, in call order
    part,        \* the partitioner's call: its arguments and what it returned
    dirs,        \* chunks of the run whose output directories were created
    snap,        \* the clock and the calculated fields of the tracker's ProgressInfo
    build,       \* the command builder's call: its arguments and what it returned
    orphans,     \* pids of children that run on after their worker dropped them
    lk           \* the holders of the locks, each thread's call and its position
                 \* in it, the number of calls begun, and the platform of the build

vars == <<manager, progress, pc, step, input, bi, ci, cmds, workers, errs,
          result, runs, cancelPc, cancelled_by, call, issued, part, dirs, snap, build,
          orphans, lk>>

runVars == <<progress, pc, step, input, bi, ci, cmds, workers, errs, result,
             runs, cancelPc, dirs, orphans, lk>>

IdleWorker == [pc |-> "idle", size |-> 0, pid |-> 0, id |-> 0, child |-> "none", res |-> NoResult]

NoCall ==
    [op |-> None, arg |-> None, ret |-> None, signalled |-> {}, pre |-> ProcessManager_new,
     cleared |-> 0]

Init ==
    /\ manager = ProcessManager_new
    /\ progress = NoTracker
    /\ pc = "idle"
    /\ step = 0
    /\ input = <<>>
    /\ bi = 0
    /\ ci = 0
    /\ cmds = <<>>
    /\ workers = [w \in Workers |-> IdleWorker]
    /\ errs = {}
    /\ result = NoResult
    /\ runs = 0
    /\ cancelPc = "idle"
    /\ cancelled_by = "none"
    /\ call = NoCall
    /\ issued = <<>>
    /\ part = NoPart
    /\ dirs = 0
    /\ snap = NoSnap
    /\ build = NoBuild
    /\ orphans = {}
    /\ lk = NoLock

(* ------------------- SpecApi: ProcessManager as an object ------------- *)
Called(op, arg, r) ==
    /\ manager' = r.m
    /\ call' = [op |-> op, arg |-> arg, ret |-> r.ret, signalled |-> r.signalled,
                pre |-> manager,
                cleared |-> IF op = "clear" THEN manager.next_id ELSE call.cleared]

ApiRegister ==
    /\ manager.next_id < MaxIds
    /\ \E pid \in Pids :
          /\ Called("register", pid, register_process_by_pid(manager, pid))
          /\ issued' = Append(issued, register_process_by_pid(manager, pid).ret)
    /\ UNCHANGED <<runVars, part, cancelled_by, snap, build>>

ApiUnregister ==
    /\ \E id \in Ids : Called("unregister", id, unregister_process(manager, id))
    /\ UNCHANGED <<runVars, part, cancelled_by, issued, snap, build>>

ApiRequestCancel ==
    /\ Called("request_cancel", None, request_cancel(manager))
    /\ cancelled_by' = "request_cancel"
    /\ UNCHANGED <<runVars, part, issued, snap, build>>

ApiIsCancelled ==
    /\ Called("is_cancelled", None, is_cancelled(manager))
    /\ UNCHANGED <<runVars, part, cancelled_by, issued, snap, build>>

\* the guard called by any thread; no run has started a tracker here
ApiCheckCancelled ==
    /\ LET chk == check_cancelled(manager, progress)
       IN  /\ Called("check_cancelled", None,
                     [m |-> chk.m,
                      ret |-> IF chk.err THEN CancellationError.msg ELSE "Ok",
                      signalled |-> chk.signalled])
           /\ progress' = chk.progress
    /\ UNCHANGED <<pc, step, input, bi, ci, cmds, workers, errs, result, runs,
                   cancelPc, cancelled_by, issued, part, dirs, snap, build, orphans, lk>>

ApiKillAll ==
    /\ \E failed \in SUBSET (DOMAIN manager.process_ids) :
          Called("kill_all", failed, kill_all_processes(manager, failed))
    /\ cancelled_by' = IF cancelled_by = "none" THEN "kill_all" ELSE cancelled_by
    /\ UNCHANGED <<runVars, part, issued, snap, build>>

ApiClear ==
    /\ Called("clear", None, clear(manager))
    /\ cancelled_by' = "none"
    /\ UNCHANGED <<runVars, part, issued, snap, build>>

NextApi ==
    \/ ApiRegister
    \/ ApiUnregister
    \/ ApiRequestCancel
    \/ ApiIsCancelled
    \/ ApiCheckCancelled
    \/ ApiKillAll
    \/ ApiClear

SpecApi == Init /\ [][NextApi]_vars

(* ------------------- SpecPart: the partitioner's call ----------------- *)
\* the arguments a call can get.  cpus is the value of num_cpus::get(); 0 is
\* kept as an argument because the function takes any usize
PartInputs ==
    {[image_list |-> l, cpus |-> c] :
        l \in SmallImageLists \cup LargeImageLists, c \in 0..MaxCpus} \cup {ScenarioA}

InitPart ==
    /\ manager = ProcessManager_new
    /\ progress = NoTracker
    /\ pc = "idle"
    /\ step = 0
    /\ input = <<>>
    /\ bi = 0
    /\ ci = 0
    /\ cmds = <<>>
    /\ workers = [w \in Workers |-> IdleWorker]
    /\ errs = {}
    /\ result = NoResult
    /\ runs = 0
    /\ cancelPc = "idle"
    /\ cancelled_by = "none"
    /\ call = NoCall
    /\ issued = <<>>
    /\ \E in \in PartInputs :
          part = [image_list |-> in.image_list, cpus |-> in.cpus, order |-> <<>>,
                  called |-> FALSE, out |-> NoOutput]
    /\ dirs = 0
    /\ snap = NoSnap
    /\ build = NoBuild
    /\ orphans = {}
    /\ lk = NoLock

\* process_images_from_image_list, lines 125-168: the images are grouped by key
\* and split_batches_optimally is called with twice the CPU count
Partition ==
    /\ ~part.called
    /\ LET batches == GroupByKey(part.image_list)
       IN  \E order \in IterationOrders(batches) :
              part' = [part EXCEPT
                          !.order = order,
                          !.called = TRUE,
                          !.out = split_batches_optimally(batches, order, part.cpus * 2)]
    /\ UNCHANGED <<manager, runVars, cancelled_by, call, issued, snap, build>>

NextPart == Partition

SpecPart == InitPart /\ [][NextPart]_vars

(* ------------------ SpecProgress: ProgressManager as an object -------- *)
\* totals and increments the callers pass
Totals == {0, 3, 100}
Increments == {1, 12}

ProgressCall(op, arg) ==
    call' = [op |-> op, arg |-> arg, ret |-> None, signalled |-> {},
             pre |-> ProcessManager_new, cleared |-> 0]

progVars == <<manager, pc, step, input, bi, ci, cmds, workers, errs, result, runs,
              cancelPc, cancelled_by, issued, part, dirs, build, orphans, lk>>

PStart ==
    /\ progress' = ProgressTracker_new("Reading images... (Step 1/5)")
    /\ snap' = ProgressTracker_start(snap)
    /\ ProgressCall("start_progress", None)
    /\ UNCHANGED progVars

PSetTotal ==
    /\ \E t \in Totals :
          /\ progress' = set_total(progress, t)
          /\ ProgressCall("set_total", t)
    /\ snap' = IF progress.some THEN update_calculations(progress', snap) ELSE snap
    /\ UNCHANGED progVars

PIncrement ==
    /\ \E v \in Increments :
          /\ progress.current + v <= MaxCurrent
          /\ progress' = increment_progress(progress, v)
          /\ ProgressCall("increment_progress", v)
    /\ snap' = IF progress.some THEN update_calculations(progress', snap) ELSE snap
    /\ UNCHANGED progVars

PSetStatus ==
    /\ progress' = set_status(progress, "Processing images... (Step 5/5)")
    /\ ProgressCall("set_status", None)
    /\ UNCHANGED <<progVars, snap>>

PFinish ==
    /\ progress' = finish_progress(progress)
    /\ ProgressCall("finish_progress", None)
    /\ UNCHANGED <<progVars, snap>>

PClear ==
    /\ progress' = clear_progress(progress)
    /\ ProgressCall("clear_progress", None)
    /\ UNCHANGED <<progVars, snap>>

\* time passes
Tick ==
    /\ snap.now < MaxTime
    /\ snap' = [snap EXCEPT !.now = @ + 1]
    /\ UNCHANGED <<progVars, progress, call>>

NextProgress ==
    \/ PStart
    \/ PSetTotal
    \/ PIncrement
    \/ PSetStatus
    \/ PFinish
    \/ PClear
    \/ Tick

SpecProgress == Init /\ [][NextProgress]_vars

(* ---------------- SpecBuild: the command builder as a function -------- *)
InitBuild ==
    /\ manager = ProcessManager_new
    /\ progress = NoTracker
    /\ pc = "idle"
    /\ step = 0
    /\ input = <<>>
    /\ bi = 0
    /\ ci = 0
    /\ cmds = <<>>
    /\ workers = [w \in Workers |-> IdleWorker]
    /\ errs = {}
    /\ result = NoResult
    /\ runs = 0
    /\ cancelPc = "idle"
    /\ cancelled_by = "none"
    /\ call = NoCall
    /\ issued = <<>>
    /\ part = NoPart
    /\ dirs = 0
    /\ snap = NoSnap
    /\ build \in BuildInputs
    /\ orphans = {}
    /\ lk = NoLock

\* create_image_ffmpeg_command_list on a batch whose paths are all valid: the
\* batch sizes of the commands and the output file of every image
CreateCommandList ==
    /\ ~build.called
    /\ build' = [build EXCEPT
                    !.called = TRUE,
                    !.chunks = ChunkSizes(build.n),
                    !.outputs = [i \in 1..Len(build.files) |->
                                   output_file(build.files[i], build.keep, build.target)]]
    /\ UNCHANGED <<manager, runVars, cancelled_by, call, issued, part, snap>>

NextBuild == CreateCommandList

SpecBuild == InitBuild /\ [][NextBuild]_vars

(* ------------- SpecLock: calls as sequences of lock operations -------- *)
lockRest == <<pc, step, input, bi, ci, cmds, workers, errs, result, runs, cancelPc,
              cancelled_by, call, part, dirs, snap, build, orphans>>

InitLock ==
    /\ manager = ProcessManager_new
    /\ progress = NoTracker
    /\ pc = "idle"
    /\ step = 0
    /\ input = <<>>
    /\ bi = 0
    /\ ci = 0
    /\ cmds = <<>>
    /\ workers = [w \in Workers |-> IdleWorker]
    /\ errs = {}
    /\ result = NoResult
    /\ runs = 0
    /\ cancelPc = "idle"
    /\ cancelled_by = "none"
    /\ call = NoCall
    /\ issued = <<>>
    /\ part = NoPart
    /\ dirs = 0
    /\ snap = NoSnap
    /\ build = NoBuild
    /\ orphans = {}
    /\ \E w \in BOOLEAN : lk = [NoLock EXCEPT !.windows = w]

\* the instruction thread t executes next
Instr(t) == Program(lk.th[t].op)[lk.th[t].pc]
Busy_(t) == lk.th[t].op # "none"
Holds(t) == {l \in Locks : lk.holder[l] = t}

\* the part of a call that is skipped: set_status when the flag was clear, the
\* increment when the encoder failed
SkipsTail(r) ==
    \/ r.op = "check_cancelled" /\ ~r.flag
    \/ r.op = "encode" /\ ~r.ok

\* thread record r has executed its instruction; m is the registry after it
After(r, m) ==
    LET prog == Program(r.op)
        q1 == [r EXCEPT !.pc = r.pc + 1]
        q2 == IF q1.pc <= Len(prog) /\ prog[q1.pc] = Acq("progress") /\ SkipsTail(r)
              THEN [q1 EXCEPT !.pc = q1.pc + Len(ProgressCallSteps("none"))]
              ELSE q1
        q3 == IF q2.pc <= Len(prog) /\ prog[q2.pc].k = "kill"
                 /\ (DOMAIN m.process_ids) \ r.done = {}
              THEN [q2 EXCEPT !.pc = q2.pc + 1]
              ELSE q2
    IN  IF q3.pc > Len(prog) THEN IdleThread ELSE q3

\* a thread enters one of the calls.  The threads are interchangeable: of the
\* threads outside a call the one with the lowest index enters
Begin(t) ==
    /\ ~Busy_(t)
    /\ \A u \in 1..(t - 1) : Busy_(u)
    /\ lk.calls < MaxCalls
    /\ \E op \in LockOps, id \in Ids :
          lk' = [lk EXCEPT !.calls = @ + 1,
                           !.th[t] =
                               [IdleThread EXCEPT !.op = op, !.pc = 1,
                                                  !.arg = IF op = "unregister" THEN id ELSE 0]]
    /\ UNCHANGED <<manager, progress, issued, lockRest>>

\* Mutex::lock: the thread waits until the mutex is free.  Without a tracker
\* the call on the tracker ends with GLOBAL_PROGRESS alone
Acquire(t) ==
    /\ Busy_(t)
    /\ Instr(t).k = "acquire"
    /\ IF Instr(t).l = "info" /\ ~progress.some
       THEN lk' = [lk EXCEPT !.th[t].pc = @ + 3]
       ELSE /\ lk.holder[Instr(t).l] = 0
            /\ lk' = [lk EXCEPT !.holder[Instr(t).l] = t,
                                !.th[t] = After(lk.th[t], manager)]
    /\ UNCHANGED <<manager, progress, issued, lockRest>>

\* the guard goes out of scope
Release(t) ==
    /\ Busy_(t)
    /\ Instr(t).k = "release"
    /\ lk' = [lk EXCEPT !.holder[Instr(t).l] = 0,
                        !.th[t] = After(lk.th[t], manager)]
    /\ UNCHANGED <<manager, progress, issued, lockRest>>

\* the body of a call, under its lock
WorkStep(t) ==
    /\ Busy_(t)
    /\ Instr(t).k = "work"
    /\ LET a == Instr(t).a
           r == lk.th[t]
           reg == register_process_by_pid(manager, t)
       IN  /\ manager' =
                 CASE a = "register" -> reg.m
                   [] a = "unregister" -> unregister_process(manager, r.arg).m
                   [] a = "set_flag" -> request_cancel(manager).m
                   [] a = "clear_ids" -> [manager EXCEPT !.process_ids = EmptyMap]
                   [] a = "clear" -> clear(manager).m
                   [] OTHER -> manager
           /\ progress' =
                 CASE a = "set_status" -> set_status(progress, "Operation cancelled")
                   [] a = "start" -> ProgressTracker_new("Reading images... (Step 1/5)")
                   [] a = "increment" -> increment_progress(progress, 1)
                   [] OTHER -> progress
           /\ issued' = IF a = "register" THEN Append(issued, reg.ret) ELSE issued
           /\ lk' = [lk EXCEPT !.th[t] =
                         After([r EXCEPT
                                   !.arg = IF a = "register" THEN reg.ret ELSE @,
                                   !.flag = IF a = "load_flag"
                                            THEN is_cancelled(manager).ret ELSE @],
                               manager')]
    /\ UNCHANGED lockRest

\* kill_process_by_pid for one entry of the registry: on Windows taskkill is
\* run and waited for, elsewhere SIGKILL is sent
Kill(t) ==
    /\ Busy_(t)
    /\ Instr(t).k = "kill"
    /\ \E id \in (DOMAIN manager.process_ids) \ lk.th[t].done :
          LET r == [lk.th[t] EXCEPT !.done = @ \cup {id}]
          IN  lk' = [lk EXCEPT !.th[t] =
                        IF (DOMAIN manager.process_ids) \ r.done = {}
                        THEN After(r, manager) ELSE r]
    /\ UNCHANGED <<manager, progress, issued, lockRest>>

\* process_ffmpeg_output returns: the encoder has ended, with success or not
WaitChild(t) ==
    /\ Busy_(t)
    /\ Instr(t).k = "io"
    /\ \E ok \in BOOLEAN :
          lk' = [lk EXCEPT !.th[t] = After([lk.th[t] EXCEPT !.ok = ok], manager)]
    /\ UNCHANGED <<manager, progress, issued, lockRest>>

NextLock ==
    \/ \E t \in Threads : Begin(t)
    \/ \E t \in Threads : Acquire(t)
    \/ \E t \in Threads : Release(t)
    \/ \E t \in Threads : WorkStep(t)
    \/ \E t \in Threads : Kill(t)
    \/ \E t \in Threads : WaitChild(t)

SpecLock == InitLock /\ [][NextLock]_vars

(* ----------------------- Spec: a run and a cancel --------------------- *)
\* the check_process_cancelled()? sites of handle_images and of the functions it
\* calls before the build loop, by source line
CheckSites == <<42, 56, 70, 87, 97, 145, 266, 115, 175, 190>>

\* the status text set between a passed check and the next one
StatusAfter(site, p) ==
    CASE site = 42 -> set_status(p, "Reading image paths from input directory... (Step 2/7)")
      [] site = 70 -> set_status(p, "Creating image structs... (Step 3/7)")
      [] site = 87 -> set_status(p, "Sorting images by file size... (Step 4/7)")
      [] site = 97 -> set_status(p, "Applying image settings... (Step 5/7)")
      [] site = 145 -> set_status(p, "Processing logos... (Step 6/7)")
      [] site = 115 -> set_status(p, "Processing images... (Step 7/7)")
      [] OTHER -> p

\* handle_images returns e; its locals are dropped
Return(e) ==
    /\ pc' = "returned"
    /\ result' = e
    /\ step' = 0
    /\ bi' = 0
    /\ ci' = 0
    /\ cmds' = <<>>
    /\ errs' = {}

\* handle_images, lines 23-40
RunStart ==
    /\ pc \in {"idle", "returned"}
    /\ runs < MaxRuns
    /\ runs' = runs + 1
    /\ \E in \in Inputs : input' = in
    /\ manager' = clear(manager).m
    /\ progress' = ProgressTracker_new("Clearing and creating output folder... (Step 1/7)")
    /\ pc' = "pipeline"
    /\ step' = 1
    /\ bi' = 0
    /\ ci' = 0
    /\ cmds' = <<>>
    /\ errs' = {}
    /\ result' = NoResult
    /\ cancelled_by' = "none"
    /\ dirs' = 0
    /\ UNCHANGED <<workers, cancelPc, call, issued, part, snap, build, orphans, lk>>

is_empty_never(list) == FALSE

\* Vec::is_empty of valid_image_paths and of image_list
is_empty(list) == list = <<>>

\* one check of the pipeline and the code up to the next check
PipelineCheck ==
    /\ pc = "pipeline"
    /\ LET site == CheckSites[step]
           chk == check_cancelled(manager, progress)
       IN  IF chk.err
           THEN /\ progress' = chk.progress
                /\ Return(CancellationError)
           ELSE \/ /\ site = 56
                   /\ is_empty(input)
                   /\ progress' = set_status(progress, "No images found in the input directory")
                   /\ Return(Ok)
                \/ /\ site = 70
                   /\ is_empty(input)
                   /\ progress' = set_status(progress, "No valid images could be loaded")
                   /\ Return(Ok)
                \/ /\ ~(site = 70 /\ is_empty(input))
                   /\ progress' = IF site = 115
                                  THEN set_total(StatusAfter(site, progress), TotalItems(input))
                                  ELSE StatusAfter(site, progress)
                   /\ IF step < Len(CheckSites)
                      THEN /\ step' = step + 1
                           /\ UNCHANGED <<pc, bi>>
                      ELSE /\ pc' = "build_unit"
                           /\ bi' = 1
                           /\ UNCHANGED step
                   /\ UNCHANGED <<result, ci, cmds, errs>>
    /\ UNCHANGED <<manager, input, workers, runs, cancelPc, cancelled_by, call, issued, part, dirs, snap, build, orphans, lk>>

\* process_images_from_image_list, lines 194-239: the head of the loop body
BuildUnit ==
    /\ pc = "build_unit"
    /\ LET chk == check_cancelled(manager, progress)
       IN  IF chk.err
           THEN /\ progress' = chk.progress
                /\ Return(CancellationError)
           ELSE /\ pc' = "build_chunk"
                /\ ci' = 1
                /\ UNCHANGED <<progress, result, step, bi, cmds, errs>>
    /\ UNCHANGED <<manager, input, workers, runs, cancelPc, cancelled_by, call, issued, part, dirs, snap, build, orphans, lk>>

create_dir_all_skipped(d) == d

\* the loop of std::fs::create_dir_all over the chunk's output directories: one
\* more chunk has its directories
create_dir_all(d) == d + 1

\* create_image_ffmpeg_command, lines 390-395, for one chunk: the check and the
\* creation of the output directories; an error is mapped at lines 241-245
BuildChunk ==
    /\ pc = "build_chunk"
    /\ LET chk == check_cancelled(manager, progress)
       IN  IF chk.err
           THEN /\ progress' = chk.progress
                /\ Return(BatchError(CancellationError))
                /\ UNCHANGED dirs
           ELSE \/ /\ dirs' = create_dir_all(dirs)
                   /\ pc' = "build_cmd"
                   /\ UNCHANGED <<progress, result, step, bi, ci, cmds, errs>>
                \/ /\ Return(BatchError(DirError))
                   /\ UNCHANGED <<progress, dirs>>
    /\ UNCHANGED <<manager, input, workers, runs, cancelPc, cancelled_by, call, issued,
                   part, snap, build, orphans, lk>>

\* create_image_ffmpeg_command, lines 397-463, and the push of the command;
\* after the last chunk of the last unit the list is sorted and handed to the pool
BuildCommand ==
    /\ pc = "build_cmd"
    /\ LET chunks == ChunkSizes(input[bi].n)
       IN  IF input[bi].bad = ci
           THEN /\ Return(BatchError(PathError))
           ELSE /\ UNCHANGED <<result, step, errs>>
                /\ IF ci < Len(chunks)
                   THEN /\ cmds' = Append(cmds, chunks[ci])
                        /\ ci' = ci + 1
                        /\ pc' = "build_chunk"
                        /\ UNCHANGED bi
                   ELSE IF bi < Len(input)
                   THEN /\ cmds' = Append(cmds, chunks[ci])
                        /\ bi' = bi + 1
                        /\ pc' = "build_unit"
                        /\ UNCHANGED ci
                   ELSE /\ cmds' = SortDesc(Append(cmds, chunks[ci]))
                        /\ pc' = "dispatch"
                        /\ bi' = 0
                        /\ ci' = 0
       \* image_batches is consumed by the loop: only ffmpeg_commands lives on
    /\ input' = IF pc' = "dispatch" THEN <<>> ELSE input
    /\ UNCHANGED <<manager, progress, workers, runs, cancelPc, cancelled_by, call, issued,
                   part, dirs, snap, build, orphans, lk>>

FreePids ==
    (Pids \ {workers[w].pid : w \in {v \in Workers : workers[v].child # "none"}})
    \ orphans

\* a pool thread takes the next command unless an error was already returned,
\* and spawn_ffmpeg_process starts the child.  The pool's threads are
\* interchangeable: of the idle ones the thread with the lowest index takes it.
Spawn(w) ==
    /\ pc = "dispatch"
    /\ workers[w].pc = "idle"
    /\ \A v \in 1..(w - 1) : workers[v].pc # "idle"
    /\ errs = {}
    /\ cmds # <<>>
    /\ \E pid \in FreePids :
          workers' = [workers EXCEPT ![w] =
              [pc |-> "spawned", size |-> Head(cmds), pid |-> pid, id |-> 0,
               child |-> "alive", res |-> NoResult]]
    /\ cmds' = Tail(cmds)
    /\ UNCHANGED <<manager, progress, pc, step, input, bi, ci, errs, result, runs,
                   cancelPc, cancelled_by, call, issued, part, dirs, snap, build, orphans, lk>>

\* command.spawn()? fails: the closure returns the error
SpawnFail(w) ==
    /\ pc = "dispatch"
    /\ workers[w].pc = "idle"
    /\ \A v \in 1..(w - 1) : workers[v].pc # "idle"
    /\ errs = {}
    /\ cmds # <<>>
    /\ cmds' = Tail(cmds)
    /\ errs' = errs \cup {SpawnError}
    /\ UNCHANGED <<manager, progress, pc, step, input, bi, ci, workers, result, runs,
                   cancelPc, cancelled_by, call, issued, part, dirs, snap, build, orphans, lk>>

\* ffmpeg_logger, lines 17-18
Register(w) ==
    /\ workers[w].pc = "spawned"
    /\ manager.next_id < MaxRegistered
    /\ LET r == register_process_by_pid(manager, workers[w].pid)
       IN  /\ manager' = r.m
           /\ workers' = [workers EXCEPT ![w].pc = "running", ![w].id = r.ret]
           /\ issued' = Append(issued, r.ret)
    /\ UNCHANGED <<progress, pc, step, input, bi, ci, cmds, errs, result, runs,
                   cancelPc, cancelled_by, call, part, dirs, snap, build, orphans, lk>>

\* process_ffmpeg_output returns after wait(): the child has ended
ChildExit(w) ==
    /\ workers[w].pc = "running"
    /\ \E r \in IF workers[w].child = "killed"
                THEN {ExitError("cancel")}
                ELSE {Ok, ExitError("other")} :
          workers' = [workers EXCEPT ![w].pc = "exited", ![w].child = "none", ![w].res = r]
    /\ UNCHANGED <<manager, progress, pc, step, input, bi, ci, cmds, errs, result, runs,
                   cancelPc, cancelled_by, call, issued, part, dirs, snap, build, orphans, lk>>

\* process_ffmpeg_output returns at `ffmpeg_child.iter()?` or `wait()?` (lines 37
\* and 70): the events or the exit status cannot be read, and the child is
\* neither waited for nor killed
EventsFail(w) ==
    /\ workers[w].pc = "running"
    /\ workers' = [workers EXCEPT ![w].pc = "exited", ![w].res = EventsError]
    /\ UNCHANGED <<manager, progress, pc, step, input, bi, ci, cmds, errs, result, runs,
                   cancelPc, cancelled_by, call, issued, part, dirs, snap, build, orphans, lk>>

\* ffmpeg_logger, lines 23-26, and the ? in spawn_ffmpeg_process.  The closure
\* returns and drops the child's handle
Unregister(w) ==
    /\ workers[w].pc = "exited"
    /\ manager' = ffmpeg_logger_unregister(manager, workers[w].id, workers[w].res = Ok)
    /\ IF workers[w].res = Ok
       THEN /\ workers' = [workers EXCEPT ![w].pc = "increment"]
            /\ UNCHANGED errs
       ELSE /\ workers' = [workers EXCEPT ![w] = IdleWorker]
            /\ errs' = errs \cup {workers[w].res}
    /\ orphans' = IF workers[w].child = "alive"
                  THEN orphans \cup {workers[w].pid} ELSE orphans
    /\ UNCHANGED <<progress, pc, step, input, bi, ci, cmds, result, runs,
                   cancelPc, cancelled_by, call, issued, part, dirs, snap, build, lk>>

\* spawn_ffmpeg_process, ProgressMode::Batch
Increment(w) ==
    /\ workers[w].pc = "increment"
    /\ progress' = increment_progress(progress, workers[w].size)
    /\ workers' = [workers EXCEPT ![w] = IdleWorker]
    /\ UNCHANGED <<manager, pc, step, input, bi, ci, cmds, errs, result, runs,
                   cancelPc, cancelled_by, call, issued, part, dirs, snap, build, orphans, lk>>

\* a child nobody waits for ends on its own
OrphanExit ==
    /\ \E p \in orphans : orphans' = orphans \ {p}
    /\ UNCHANGED <<manager, progress, pc, step, input, bi, ci, cmds, workers, errs,
                   result, runs, cancelPc, cancelled_by, call, issued, part, dirs, snap,
                   build, lk>>

PoolIdle_ignores_in_flight == TRUE

\* try_for_each returns when every closure that was started has returned
PoolIdle == \A w \in Workers : workers[w].pc = "idle"

\* try_for_each returned Ok: finish_progress and Ok(())
DispatchOk ==
    /\ pc = "dispatch"
    /\ PoolIdle
    /\ cmds = <<>>
    /\ errs = {}
    /\ progress' = finish_progress(progress)
    /\ Return(Ok)
    /\ UNCHANGED <<manager, input, workers, runs, cancelPc, cancelled_by, call, issued, part, dirs, snap, build, orphans, lk>>

\* try_for_each returned one of the closures' errors, after the pool went idle
DispatchFail ==
    /\ pc = "dispatch"
    /\ PoolIdle
    /\ \E e \in errs : Return(e)
    /\ UNCHANGED <<manager, progress, input, workers, runs, cancelPc, cancelled_by, call, issued, part, dirs, snap, build, orphans, lk>>

\* children that receive a forced termination that took effect
Signal(ws, pids) ==
    [w \in Workers |->
        IF ws[w].child = "alive" /\ ws[w].pid \in pids
        THEN [ws[w] EXCEPT !.child = "killed"]
        ELSE ws[w]]

\* cancel_process, line 30
CancelRequest ==
    /\ cancelPc = "idle"
    /\ LET r == request_cancel(manager)
       IN  /\ manager' = r.m
           /\ workers' = Signal(workers, r.signalled)
    /\ cancelPc' = "sleeping"
    /\ cancelled_by' = "request_cancel"
    /\ UNCHANGED <<progress, pc, step, input, bi, ci, cmds, errs, result, runs,
                   call, issued, part, dirs, snap, build, orphans, lk>>

\* cancel_process, lines 33-37
CancelKill ==
    /\ cancelPc = "sleeping"
    /\ \E failed \in SUBSET (DOMAIN manager.process_ids) :
          LET r == kill_all_processes(manager, failed)
          IN  /\ manager' = r.m
              /\ workers' = Signal(workers,
                      r.signalled \ {manager.process_ids[i] : i \in failed})
    /\ cancelPc' = "idle"
    /\ cancelled_by' = IF cancelled_by = "none" THEN "kill_all" ELSE cancelled_by
    /\ UNCHANGED <<progress, pc, step, input, bi, ci, cmds, errs, result, runs,
                   call, issued, part, dirs, snap, build, orphans, lk>>

Next ==
    \/ RunStart
    \/ PipelineCheck
    \/ BuildUnit
    \/ BuildChunk
    \/ BuildCommand
    \/ \E w \in Workers : Spawn(w)
    \/ \E w \in Workers : SpawnFail(w)
    \/ \E w \in Workers : Register(w)
    \/ \E w \in Workers : ChildExit(w)
    \/ \E w \in Workers : EventsFail(w)
    \/ \E w \in Workers : Unregister(w)
    \/ \E w \in Workers : Increment(w)
    \/ DispatchOk
    \/ DispatchFail
    \/ CancelRequest
    \/ CancelKill
    \/ OrphanExit

Spec == Init /\ [][Next]_vars

(* ------------------------------- claims ------------------------------- *)
Registered(m) == DOMAIN m.process_ids

\* C1: after request_cancel() has been called, no process is registered (the
\* registry gains no entry) until the next clear().
C1_NoRegisterAfterCancel ==
    [][(cancelled_by = "request_cancel" /\ cancelled_by' = "request_cancel")
          => Registered(manager') \subseteq Registered(manager)]_vars

\* C2: when a run has returned the process registry is empty, whether it
\* succeeded, failed or was cancelled.
C2_RegistryEmptyOnReturn ==
    pc = "returned" => Registered(manager) = {}

\* a run returns the error of a child that the sweep of cancel_process stopped
C2_Witness ==
    /\ pc = "returned"
    /\ result = ExitError("cancel")
    /\ manager.cancel_flag
    /\ manager.next_id > 0

\* C3: after kill_all() the registry has no entries, also when some or all of
\* the kill attempts failed.
C3_KillAllEmptiesRegistry ==
    call.op = "kill_all" => Registered(manager) = {}

\* a sweep over a non-empty registry in which at least one kill failed
C3_Witness ==
    /\ call.op = "kill_all"
    /\ call.arg # {}
    /\ Registered(call.pre) # {}

\* C4: kill_all() returns an error exactly when at least one kill attempt
\* against a registered pid failed.
C4_KillAllReportsFailures ==
    call.op = "kill_all" => (call.ret = "Err" <=> call.arg # {})

\* C5: from a request_cancel() or kill_all() until the next clear(), the flag
\* is set in every state and is_cancelled() returns true.
C5_CancelFlagSticky ==
    cancelled_by # "none" =>
        /\ manager.cancel_flag
        /\ call.op = "is_cancelled" => call.ret = TRUE

\* is_cancelled() is asked after the flag was set and the registry swept
C5_Witness ==
    /\ call.op = "is_cancelled"
    /\ cancelled_by = "request_cancel"
    /\ call.ret = TRUE
    /\ manager.next_id > 0
    /\ Registered(manager) = {}

\* C6: every register call returns an id strictly greater than every id an
\* earlier register call returned, whatever was called in between.
C6_IdsStrictlyIncrease ==
    \A i, j \in 1..Len(issued) : i < j => issued[i] < issued[j]

\* a register call after the earlier entries were removed: the registry holds
\* the newest id only
C6_Witness ==
    /\ Len(issued) >= 2
    /\ call.op = "register"
    /\ Registered(call.pre) = {}
    /\ Registered(manager) = {issued[Len(issued)]}

\* C7: unregister(id) for an id that is not in the registry changes nothing and
\* returns normally; a second call after any unregister(id) changes nothing.
C7_UnregisterAbsentIsNoop ==
    call.op = "unregister" =>
        /\ call.ret = "return"
        /\ call.arg \notin Registered(call.pre) => manager = call.pre
        /\ unregister_process(manager, call.arg).m = manager

\* unregister of an id that was never issued, with other entries registered
C7_Witness ==
    /\ call.op = "unregister"
    /\ call.arg >= call.pre.next_id
    /\ Registered(call.pre) # {}

\* C8: request_cancel() sets the flag and nothing else: registry and id counter
\* are unchanged, no termination is issued, and a second call changes nothing.
C8_RequestCancelOnlySetsFlag ==
    call.op = "request_cancel" =>
        /\ manager = [call.pre EXCEPT !.cancel_flag = TRUE]
        /\ call.signalled = {}
        /\ request_cancel(manager).m = manager

\* request_cancel() with processes registered and the flag not yet set
C8_Witness ==
    /\ call.op = "request_cancel"
    /\ ~call.pre.cancel_flag
    /\ Registered(call.pre) # {}

\* C9: after clear() the registry is empty and is_cancelled() is false,
\* whatever they were before.
C9_ClearResets ==
    call.op = "clear" =>
        /\ Registered(manager) = {}
        /\ ~is_cancelled(manager).ret

\* clear() of a manager with the flag set and entries left in the registry
C9_Witness ==
    /\ call.op = "clear"
    /\ call.pre.cancel_flag
    /\ Registered(call.pre) # {}

\* C10: a run that ends because of the user's cancellation returns the
\* CancellationError ("Operation cancelled by user"), at every call site.
C10_CancelledRunReturnsCancellationError ==
    (pc = "returned" /\ result.cause = "cancel") =>
        /\ result.type = "CancellationError"
        /\ result.msg = "Operation cancelled by user"

UnitCounts(units) == [i \in 1..Len(units) |-> Len(units[i].images)]
UnitShape(units) ==
    [i \in 1..Len(units) |-> [key |-> units[i].key, count |-> Len(units[i].images)]]
PartReturned == part.called /\ ~part.out.panic
\* ceil(total / (2T)) and max(1, target / 4) as the contract words them
TargetPerUnit == (Len(part.image_list) + 2 * part.cpus - 1) \div (2 * part.cpus)
MinUnitSize == IF TargetPerUnit \div 4 >= 1 THEN TargetPerUnit \div 4 ELSE 1
GroupSize(k) == Cardinality({i \in 1..Len(part.image_list) : part.image_list[i].key = k})
\* a key group was split into several units
SomeGroupSplit ==
    \E k \in BatchKeys :
        Cardinality({u \in 1..Len(part.out.units) : part.out.units[u].key = k}) >= 2

\* C12: the item counts of the returned units sum to the number of input
\* records, and every input record is in exactly one unit.
C12_SumInvariant ==
    PartReturned =>
        /\ SumSeq(UnitCounts(part.out.units)) = Len(part.image_list)
        /\ \A i \in 1..Len(part.image_list) :
              Cardinality({<<u, j>> \in (1..Len(part.out.units)) \X (1..Len(part.image_list)) :
                              /\ j <= Len(part.out.units[u].images)
                              /\ part.out.units[u].images[j] = part.image_list[i]}) = 1

\* a group was split into units of unequal size
C12_Witness ==
    /\ PartReturned
    /\ \E u, v \in 1..Len(part.out.units) :
          /\ part.out.units[u].key = part.out.units[v].key
          /\ Len(part.out.units[u].images) > Len(part.out.units[v].images)

\* C13: every record of a unit has the unit's (resolution, format) key.
C13_KeyInvariant ==
    PartReturned =>
        \A u \in 1..Len(part.out.units) :
            \A j \in 1..Len(part.out.units[u].images) :
                part.out.units[u].images[j].key = part.out.units[u].key

\* two groups of the same resolution and different formats, one of them split
C13_Witness ==
    /\ PartReturned
    /\ GroupSize(KeyA) > 0
    /\ GroupSize(KeyC) > 0
    /\ SomeGroupSplit

\* C14: every unit of a group larger than target_per_unit has at least
\* max(1, target_per_unit / 4) items.
C14_MinSizeInvariant ==
    PartReturned =>
        \A u \in 1..Len(part.out.units) :
            GroupSize(part.out.units[u].key) > TargetPerUnit
                => Len(part.out.units[u].images) >= MinUnitSize

\* a split group when the minimum is above one
C14_Witness ==
    /\ PartReturned
    /\ SomeGroupSplit
    /\ MinUnitSize >= 2
    /\ part.image_list # ScenarioA.image_list

\* C15: the ordered list of (key, item count) pairs is the same for every
\* order in which the key groups are iterated.
C15_Deterministic ==
    PartReturned =>
        \A o \in IterationOrders(GroupByKey(part.image_list)) :
            UnitShape(split_batches_optimally(GroupByKey(part.image_list), o,
                                              part.cpus * 2).units)
                = UnitShape(part.out.units)

C17_ScenarioA ==
    (part.called /\ part.image_list = ScenarioA.image_list /\ part.cpus = ScenarioA.cpus) =>
        LET units == part.out.units
            of(k) == {u \in 1..Len(units) : units[u].key = k}
        IN  /\ ~part.out.panic
            /\ TargetPerUnit = 13
            /\ Len(units) = 9
            /\ Cardinality(of(KeyA)) = 5
            /\ \A u \in of(KeyA) : Len(units[u].images) \in {12, 13}
            /\ Cardinality(of(KeyB)) = 4
            /\ \A u \in of(KeyB) : Len(units[u].images) = 10
            /\ SumSeq(UnitCounts(units)) = 100

\* the call of scenario A has returned its units
C17_Witness ==
    /\ part.called
    /\ part.image_list = ScenarioA.image_list
    /\ GroupSize(KeyA) = 60
    /\ GroupSize(KeyB) = 40
    /\ part.out.units # <<>>

\* C18: the returned list is ordered largest-first.
C18_LargestFirst ==
    PartReturned =>
        \A i \in 1..(Len(part.out.units) - 1) :
            Len(part.out.units[i].images) >= Len(part.out.units[i + 1].images)

\* the groups were iterated smallest first and none was split
C18_Witness ==
    /\ PartReturned
    /\ Len(part.order) >= 2
    /\ ~SomeGroupSplit
    /\ \A i \in 1..(Len(part.order) - 1) :
          GroupSize(part.order[i]) < GroupSize(part.order[i + 1])

\* C19: with an empty input the partitioner yields no unit, and the run spawns
\* and registers nothing and returns success (unless it was cancelled first).
C19_EmptyInputReturnsOk ==
    [][(pc = "pipeline" /\ input = <<>>) =>
          /\ \A c \in 1..MaxCpus :
                split_batches_optimally(GroupByKey(<<>>), <<>>, c * 2)
                    = [panic |-> FALSE, units |-> <<>>]
          /\ workers' = workers
          /\ Registered(manager') = Registered(manager)
          /\ manager'.next_id = manager.next_id
          /\ pc' \in {"pipeline", "returned"}
          /\ pc' = "returned" =>
                \/ result' = Ok
                \/ manager.cancel_flag /\ result' = CancellationError]_vars

\* a run over an empty directory has returned Ok and no id was ever issued
C19_Witness ==
    /\ pc = "returned"
    /\ result = Ok
    /\ progress.status = "No images found in the input directory"
    /\ ~manager.cancel_flag
    /\ manager.next_id = 0

Busy == {w \in Workers : workers[w].pc # "idle"}

RECURSIVE SumSizes(_)
SumSizes(ws) ==
    IF ws = {} THEN 0
    ELSE LET w == CHOOSE v \in ws : TRUE
         IN  workers[w].size + SumSizes(ws \ {w})

C23_NoLostIncrement ==
    (/\ pc = "dispatch"
     /\ errs = {}
     /\ \A w \in Workers : workers[w].res \in {NoResult, Ok})
        => progress.current + SumSizes(Busy) + SumSeq(cmds) = progress.total

\* two workers are about to increment at the same time
C23_Witness ==
    /\ pc = "dispatch"
    /\ \E v, w \in Workers :
          /\ v # w
          /\ workers[v].pc = "increment"
          /\ workers[w].pc = "increment"

\* C25: get_progress() is none whenever no run is active.
C25_NoneWhenNoRunActive ==
    pc \in {"idle", "returned"} => ~get_progress(progress, snap).some

\* C27: a path that is not UTF-8 ends the building of its chunk only: the
\* builder goes on with the next chunk or unit, or hands over to the pool.
C27_PathErrorAbortsChunkOnly ==
    [][(pc = "build_cmd" /\ input[bi].bad = ci) =>
          pc' \in {"build_cmd", "build_chunk", "build_unit", "dispatch"}]_vars

\* C28: a command is built only after the output directories of its items
\* were created, and processes are spawned only when every command is built.
C28_DirsBeforeCommand ==
    /\ pc \in {"build_unit", "build_chunk"} => dirs = Len(cmds)
    /\ pc = "build_cmd" => dirs = Len(cmds) + 1
    /\ Busy # {} => pc = "dispatch"
    /\ pc = "dispatch" => dirs >= Len(cmds) + Cardinality(Busy) /\ input = <<>>

\* the directories of a second command were created with the first one built
C28_Witness ==
    /\ pc = "build_cmd"
    /\ dirs = 2
    /\ Len(cmds) = 1

\* C30: a worker unregisters its process only when the process has ended, and
\* no process runs on after its worker has dropped it.
C30_UnregisterAfterEnd ==
    /\ \A w \in Workers : workers[w].pc = "exited" => workers[w].child # "alive"
    /\ orphans = {}

\* C24: with total = 100 an increment of 12 from 0 gives a snapshot with
\* current = 12 and percentage = 12; an ETA is present only if time has elapsed
\* and current < total, and absent when current >= total or the rate is 0.
C24_ScenarioD ==
    LET info == get_progress(progress, snap)
    IN  /\ info.some = progress.some
        /\ (/\ info.some
            /\ call.op = "increment_progress"
            /\ call.arg = 12
            /\ progress.current = 12
            /\ progress.total = 100)
              => /\ info.current = 12
                 /\ info.total = 100
                 /\ info.percentage = [num |-> 12, den |-> 1]
        /\ info.estimated_remaining.some =>
              /\ info.elapsed_time > 0
              /\ info.current < info.total
              /\ info.estimated_remaining.num * info.items_per_second.num
                    = (info.total - info.current) * info.items_per_second.den
                        * info.estimated_remaining.den
        /\ (info.current >= info.total \/ info.items_per_second.num = 0)
              => ~info.estimated_remaining.some

\* Scenario D after some time: 12 of 100 done and an ETA is shown
C24_Witness ==
    /\ progress.some
    /\ call.op = "increment_progress"
    /\ call.arg = 12
    /\ progress.current = 12
    /\ progress.total = 100
    /\ snap.estimated_remaining.some
    /\ snap.elapsed_time > 0

\* C26: a batch of more than CHUNK_SIZE items gives at least two commands
\* whose batch sizes differ by at most one.
C26_NearEqualChunks ==
    (build.called /\ build.n > CHUNK_SIZE) =>
        /\ Len(build.chunks) >= 2
        /\ \A i, j \in 1..Len(build.chunks) :
              build.chunks[i] - build.chunks[j] <= 1

\* C29: two different images of a run never get the same output file.
C29_DistinctOutputs ==
    build.called =>
        \A i, j \in 1..Len(build.outputs) :
            build.outputs[i] = build.outputs[j] => i = j

\* the units of key k, and the records of key k in the order of the input
UnitsOf(k) == {u \in 1..Len(part.out.units) : part.out.units[u].key = k}
GroupImages(k) ==
    LET HasKey(x) == x.key = k
    IN  SelectSeq(part.image_list, HasKey)
\* position of record x among the records of its key by file size, largest
\* first, records of equal size in input order
RankInGroup(x) ==
    1 + Cardinality({i \in 1..Len(part.image_list) :
                        /\ part.image_list[i].key = x.key
                        /\ \/ part.image_list[i].file_size > x.file_size
                           \/ /\ part.image_list[i].file_size = x.file_size
                              /\ part.image_list[i].id < x.id})
SplitsOf(k) == (GroupSize(k) + TargetPerUnit - 1) \div TargetPerUnit

\* C32: a key group of at most target_per_unit records comes back as exactly
\* one unit that holds the group's records and nothing else.
C32_SmallGroupOneUnit ==
    PartReturned =>
        \A k \in BatchKeys :
            (GroupSize(k) > 0 /\ GroupSize(k) <= TargetPerUnit) =>
                /\ Cardinality(UnitsOf(k)) = 1
                /\ \A u \in UnitsOf(k) : part.out.units[u].images = GroupImages(k)

\* a small group was kept whole next to a group that was split
C32_Witness ==
    /\ PartReturned
    /\ SomeGroupSplit
    /\ \E k \in BatchKeys :
          /\ GroupSize(k) > 1
          /\ GroupSize(k) <= TargetPerUnit
          /\ Cardinality(UnitsOf(k)) = 1

\* C33: a key group above target_per_unit yields ceil(size / target_per_unit)
\* units; the unit that starts with the j-th largest record holds the records
\* of rank j, j + num_splits, j + 2 * num_splits, ..., so the units' item
\* counts differ by at most one.
C33_RoundRobinSplit ==
    PartReturned =>
        \A k \in BatchKeys :
            GroupSize(k) > TargetPerUnit =>
                /\ Cardinality(UnitsOf(k)) = SplitsOf(k)
                /\ \A u \in UnitsOf(k) :
                      LET images == part.out.units[u].images
                      IN  /\ RankInGroup(images[1]) <= SplitsOf(k)
                          /\ \A m \in 1..Len(images) :
                                RankInGroup(images[m])
                                    = RankInGroup(images[1]) + (m - 1) * SplitsOf(k)
                /\ \A u, v \in UnitsOf(k) :
                      Len(part.out.units[u].images) - Len(part.out.units[v].images) <= 1

\* a group was dealt over three or more units that are not all of one size
C33_Witness ==
    /\ PartReturned
    /\ \E k \in BatchKeys :
          /\ GroupSize(k) > TargetPerUnit
          /\ SplitsOf(k) >= 3
          /\ GroupSize(k) % SplitsOf(k) # 0
          /\ Cardinality(UnitsOf(k)) = SplitsOf(k)

\* C40: no unit has more than target_per_unit records.
C40_UnitAtMostTarget ==
    PartReturned =>
        \A u \in 1..Len(part.out.units) :
            Len(part.out.units[u].images) <= TargetPerUnit

\* a split group gave a unit of exactly target_per_unit records
C40_Witness ==
    /\ PartReturned
    /\ SomeGroupSplit
    /\ TargetPerUnit >= 2
    /\ \E u \in 1..Len(part.out.units) :
          /\ Len(part.out.units[u].images) = TargetPerUnit
          /\ GroupSize(part.out.units[u].key) > TargetPerUnit

\* C35: when an image run has gone through all its commands with success and
\* finished its progress, the counter equals the total and is_complete() holds.
C35_CompleteAfterSuccess ==
    (pc = "returned" /\ result = Ok /\ progress.finished) =>
        /\ progress.current = progress.total
        /\ is_complete(progress)

\* a run of two commands has returned Ok
C35_Witness ==
    /\ pc = "returned"
    /\ result = Ok
    /\ progress.finished
    /\ progress.total > CHUNK_SIZE
    /\ manager.next_id >= 2

\* C36: when the kill sweep runs, every live encoder process is in the
\* registry under its pid, so none escapes the sweep.
C36_SweepReachesEveryProcess ==
    [][(cancelPc = "sleeping" /\ cancelPc' = "idle") =>
          \A w \in Workers :
              workers[w].child = "alive" =>
                  /\ workers[w].pc \in {"running", "exited"}
                  /\ workers[w].id \in Registered(manager)
                  /\ manager.process_ids[workers[w].id] = workers[w].pid]_vars

\* C37: unregistering an id that was issued before the last clear() removes
\* nothing: the registry holds only ids issued after that clear().
C37_LateUnregisterRemovesNothing ==
    /\ \A i \in Registered(manager) : i >= call.cleared /\ i < manager.next_id
    /\ (call.op = "unregister" /\ call.arg < call.cleared) =>
          manager = call.pre

\* an id from before the clear() is unregistered while a newer entry exists
C37_Witness ==
    /\ call.op = "unregister"
    /\ call.arg < call.cleared
    /\ Registered(manager) # {}

WaitsOnSubprocess(t) ==
    /\ Busy_(t)
    /\ \/ Instr(t).k = "io"
       \/ Instr(t).k = "kill" /\ lk.windows

\* a thread that waits for a mutex another thread holds
Blocked(t) ==
    /\ Busy_(t)
    /\ Instr(t).k = "acquire"
    /\ ~(Instr(t).l = "info" /\ ~progress.some)
    /\ lk.holder[Instr(t).l] # 0

\* C31: a thread that waits on a subprocess holds neither the registry lock
\* nor a progress lock.
C31_NoLockAcrossSubprocessIO ==
    \A t \in Threads : WaitsOnSubprocess(t) => Holds(t) = {}

\* C34: in kill_all() the cancel flag is set before the first forced
\* termination and stays set to the end of the call, with an empty registry too.
C34_FlagBeforeKill ==
    \A t \in Threads :
        (/\ lk.th[t].op = "kill_all"
         /\ (Instr(t).k \in {"kill", "release"} \/ Instr(t).a = "clear_ids"))
          => /\ manager.cancel_flag
             /\ is_cancelled(manager).ret
             /\ Holds(t) = {"registry"}

\* the sweep is about to kill the first of the registered processes
C34_Witness ==
    \E t \in Threads :
        /\ lk.th[t].op = "kill_all"
        /\ Instr(t).k = "kill"
        /\ lk.th[t].done = {}
        /\ Registered(manager) # {}
        /\ manager.cancel_flag

\* C38: no thread asks for a progress lock while it holds the registry lock, or
\* for the registry lock while it holds a progress lock, and whenever a thread
\* waits for a lock, the holder of that lock is not waiting for a lock itself.
C38_NoDeadlock ==
    \A t \in Threads :
        /\ (Busy_(t) /\ Instr(t).k = "acquire") =>
              /\ Instr(t).l \in {"progress", "info"} => "registry" \notin Holds(t)
              /\ Instr(t).l = "registry" => Holds(t) = {}
              /\ Instr(t).l \notin Holds(t)
        /\ Blocked(t) => ~Blocked(lk.holder[Instr(t).l])

\* the guard has seen the flag and waits for the tracker, which another thread
\* holds, while a third call could take the registry
C38_Witness ==
    \E t, u \in Threads :
        /\ t # u
        /\ lk.th[t].op = "check_cancelled"
        /\ lk.th[t].flag
        /\ Blocked(t)
        /\ Instr(t).l = "progress"
        /\ lk.holder["progress"] = u
        /\ lk.holder["registry"] = 0

====
